---------------------------- MODULE Spec2Model ----------------------------
(***************************************************************************)
(* A model of BinaryHeap<T> (src/src/binary_heap.rs), the array-backed     *)
(* realisation of the MinHeap<T> trait (src/src/min_heap.rs).              *)
(*                                                                         *)
(* The backing Vec<T> is a TLA+ sequence.  The code indexes it from 0, a   *)
(* TLA+ sequence is indexed from 1: At(vals, i) reads the element the code *)
(* calls values[i].  T is instantiated with a range of integers, ordered   *)
(* as the integers are.                                                    *)
(***************************************************************************)
EXTENDS Integers, Sequences, FiniteSets

VARIABLES
    values,     \* BinaryHeap::values, the backing Vec<T>
    op,         \* the method that ran last: "new", "push", "pop", "top", "len", "is_empty"
    arg,        \* the argument of that call (push), NoArg otherwise
    ret,        \* what that call returned
    before,     \* values as it was when that call started
    pushes,     \* number of calls of push so far
    pops,       \* number of calls of pop so far that returned Some
    theirs,     \* the reference heap of tests::fuzz, as a multiset: value -> count
    theirsRet,  \* what the reference heap returned in the last call
    phase,      \* SpecSorted only: "push" until the first pop, then "pop"
    pushed,     \* SpecSorted only: the values pushed, in order
    popped,     \* SpecSorted only: the values the pops returned, in order
    net,        \* value -> times pushed minus times returned by pop (zero entries left out)
    pc,         \* SpecSteps only: "idle", or the loop the running call is in
    loop_current,   \* SpecSteps only: `current` of push, `current_node` of pop
    loop_last,      \* SpecSteps only: `last` of pop
    saved,      \* SpecSteps only: `top` of pop, the value it will return
    used,       \* SpecSteps only: the indices the last step read or swapped, and
                \* the length of the vector when it did
    trail       \* SpecSteps only: the indices loop_current has held in the running call

stepvars == <<pc, loop_current, loop_last, saved, used, trail>>

vars == <<values, op, arg, ret, before, pushes, pops, theirs, theirsRet,
          phase, pushed, popped, net, pc, loop_current, loop_last, saved, used,
          trail>>

----------------------------------------------------------------------------
(* Bounds of the model. *)

\* T ranges over 0 .. MaxVal
MaxVal == 2
\* push is not called on a heap that already holds MaxLen elements
MaxLen == 6
\* push is called at most MaxPushes times in one behaviour
MaxPushes == 7
\* SpecIndex: the index functions are applied to 0 .. MaxIndex
MaxIndex == 40

Val == 0 .. MaxVal

----------------------------------------------------------------------------
(* Option<T>, (), and the Vec<T> methods the heap uses. *)

None == <<"None">>
Some(v) == <<"Some", v>>
Unit == <<"()">>
NoArg == <<"-">>

\* values[i] of the code (0-based)
At(vals, i) == vals[i + 1]

\* Vec::swap(i, j)
vec_swap(vals, i, j) ==
    [k \in 1 .. Len(vals) |->
        IF k = i + 1 THEN vals[j + 1]
        ELSE IF k = j + 1 THEN vals[i + 1]
        ELSE vals[k]]

\* Vec::get(i)
vec_get(vals, i) == IF i < Len(vals) THEN Some(At(vals, i)) ELSE None

\* Vec::pop(): the vector without its last element, and that element
vec_pop(vals) ==
    IF vals = <<>>
    THEN [values |-> vals, ret |-> None]
    ELSE [values |-> SubSeq(vals, 1, Len(vals) - 1), ret |-> Some(vals[Len(vals)])]

----------------------------------------------------------------------------
(* The index arithmetic of the implicit tree. *)

left_son(index) == 2 * index + 1

right_son(index) == 2 * index + 2

\* the parent formula of a tree whose root is at index 1
father_one_based(index) == IF index = 0 THEN None ELSE Some(index \div 2)

father(index) == IF index = 0 THEN None ELSE Some(((index + 1) \div 2) - 1)

----------------------------------------------------------------------------
(* The methods.  Each is an operator from the vector it is called on to    *)
(* the vector it leaves and the value it returns.                          *)

\* a new that reserves index 0 for a placeholder
new_placeholder == <<0>>

new == <<>>

\* a push that appends and never sifts up
push_loop_none(vals, current) == vals

\* a sift-up that stops after one step
push_loop_once(vals, current) ==
    IF father(current) = None
    THEN vals
    ELSE LET f == father(current)[2]
         IN  IF At(vals, current) >= At(vals, f)
             THEN vals
             ELSE vec_swap(vals, current, f)

\* a sift-up with the comparison turned round: builds a max-heap
RECURSIVE push_loop_max(_, _)
push_loop_max(vals, current) ==
    IF father(current) = None
    THEN vals
    ELSE LET f == father(current)[2]
         IN  IF At(vals, current) <= At(vals, f)
             THEN vals
             ELSE push_loop_max(vec_swap(vals, current, f), f)

\* a sift-up along the vector instead of the tree: the parent taken to be
\* the element just before
RECURSIVE push_loop_linear(_, _)
push_loop_linear(vals, current) ==
    IF current = 0
    THEN vals
    ELSE LET f == current - 1
         IN  IF At(vals, current) >= At(vals, f)
             THEN vals
             ELSE push_loop_linear(vec_swap(vals, current, f), f)

\* a sift-up that copies the parent down instead of swapping
RECURSIVE push_loop_overwrite(_, _)
push_loop_overwrite(vals, current) ==
    IF father(current) = None
    THEN vals
    ELSE LET f == father(current)[2]
         IN  IF At(vals, current) >= At(vals, f)
             THEN vals
             ELSE push_loop_overwrite([vals EXCEPT ![current + 1] = vals[f + 1]], f)

\* the loop of push (sift-up), entered with `current`
RECURSIVE push_loop(_, _)
push_loop(vals, current) ==
    IF father(current) = None
    THEN vals
    ELSE LET f == father(current)[2]
         IN  IF At(vals, current) >= At(vals, f)
             THEN vals
             ELSE push_loop(vec_swap(vals, current, f), f)

push(vals, val) ==
    LET appended == Append(vals, val)
        current == Len(appended) - 1
    IN  [values |-> push_loop(appended, current), ret |-> Unit]

\* a top that takes the first element out of the vector
top_take(vals) ==
    [values |-> IF vals = <<>> THEN vals ELSE Tail(vals), ret |-> vec_get(vals, 0)]

top(vals) == [values |-> vals, ret |-> vec_get(vals, 0)]

\* a sift-down that never looks at the right child
RECURSIVE pop_loop_left(_, _, _)
pop_loop_left(vals, current_node, last) ==
    LET ls == left_son(current_node)
    IN  IF ls > last
        THEN vals
        ELSE IF At(vals, current_node) <= At(vals, ls)
             THEN vals
             ELSE pop_loop_left(vec_swap(vals, current_node, ls), ls, last)

\* a sift-down that takes the right child when it is the larger one
RECURSIVE pop_loop_larger(_, _, _)
pop_loop_larger(vals, current_node, last) ==
    LET ls == left_son(current_node)
        rs == right_son(current_node)
    IN  IF ls > last
        THEN vals
        ELSE LET smallest == IF rs <= last /\ At(vals, rs) > At(vals, ls)
                             THEN rs ELSE ls
             IN  IF At(vals, current_node) <= At(vals, smallest)
                 THEN vals
                 ELSE pop_loop_larger(vec_swap(vals, current_node, smallest),
                                      smallest, last)

\* the loop of pop (sift-down), entered with `current_node`; `last` is the
\* index of the last element
RECURSIVE pop_loop(_, _, _)
pop_loop(vals, current_node, last) ==
    LET ls == left_son(current_node)
        rs == right_son(current_node)
    IN  IF ls > last
        THEN vals
        ELSE LET smallest == IF rs <= last /\ At(vals, rs) < At(vals, ls)
                             THEN rs ELSE ls
             IN  IF At(vals, current_node) <= At(vals, smallest)
                 THEN vals
                 ELSE pop_loop(vec_swap(vals, current_node, smallest), smallest, last)

\* pop on a vector that holds at least one element
pop_nonempty(vals) ==
    IF Len(vals) = 1
    THEN vec_pop(vals)
    ELSE LET last0 == Len(vals) - 1
             swapped == vec_swap(vals, 0, last0)
             taken == vec_pop(swapped)
             last == last0 - 1
         IN  [values |-> pop_loop(taken.values, 0, last), ret |-> taken.ret]

\* a pop without the check for the empty vector: values.len() - 1 underflows
Panic == <<"panic">>
pop_unchecked(vals) ==
    IF vals = <<>> THEN [values |-> vals, ret |-> Panic] ELSE pop_nonempty(vals)

\* a pop that returns the minimum and leaves it in the vector
pop_peek(vals) == [values |-> vals, ret |-> vec_get(vals, 0)]

pop(vals) ==
    IF vals = <<>>
    THEN [values |-> vals, ret |-> None]
    ELSE pop_nonempty(vals)

len(vals) == [values |-> vals, ret |-> Len(vals)]

\* an is_empty that tests for one element
is_empty_one(vals) == [values |-> vals, ret |-> (Len(vals) = 1)]

is_empty(vals) == [values |-> vals, ret |-> (vals = <<>>)]

----------------------------------------------------------------------------
(* The same methods one loop iteration at a time.  A step gives the vector *)
(* it leaves, the loop index, whether the call is over, the indices it     *)
(* read or swapped with the length of the vector at that moment, and       *)
(* whether it panicked: an index past the end, or a usize below 0.         *)

InRange(idx, vals) == \A i \in idx : 0 <= i /\ i < Len(vals)

Use(idx, vals) == [idx |-> idx, len |-> Len(vals)]

\* push up to the loop: the append and `current = len - 1`
push_start(vals, val) ==
    LET appended == Append(vals, val)
    IN  [values |-> appended,
         current |-> Len(appended) - 1,
         panic |-> Len(appended) - 1 < 0]

\* an iteration of push that also swaps with a parent equal to the value
push_iter_nonstrict(vals, current) ==
    IF father(current) = None
    THEN [values |-> vals, current |-> current, done |-> TRUE, panic |-> FALSE,
          used |-> Use({}, vals)]
    ELSE LET f == father(current)[2]
             idx == {current, f}
         IN  IF ~ InRange(idx, vals)
             THEN [values |-> vals, current |-> current, done |-> FALSE,
                   panic |-> TRUE, used |-> Use(idx, vals)]
             ELSE IF At(vals, current) > At(vals, f)
             THEN [values |-> vals, current |-> current, done |-> TRUE,
                   panic |-> FALSE, used |-> Use(idx, vals)]
             ELSE [values |-> vec_swap(vals, current, f), current |-> f,
                   done |-> FALSE, panic |-> FALSE, used |-> Use(idx, vals)]

\* an iteration of push that swaps and leaves `current` where it was
push_iter_stay(vals, current) ==
    IF father(current) = None
    THEN [values |-> vals, current |-> current, done |-> TRUE, panic |-> FALSE,
          used |-> Use({}, vals)]
    ELSE LET f == father(current)[2]
             idx == {current, f}
         IN  IF ~ InRange(idx, vals)
             THEN [values |-> vals, current |-> current, done |-> FALSE,
                   panic |-> TRUE, used |-> Use(idx, vals)]
             ELSE IF At(vals, current) >= At(vals, f)
             THEN [values |-> vals, current |-> current, done |-> TRUE,
                   panic |-> FALSE, used |-> Use(idx, vals)]
             ELSE [values |-> vec_swap(vals, current, f), current |-> current,
                   done |-> FALSE, panic |-> FALSE, used |-> Use(idx, vals)]

\* one iteration of the loop of push
push_iter(vals, current) ==
    IF father(current) = None
    THEN [values |-> vals, current |-> current, done |-> TRUE, panic |-> FALSE,
          used |-> Use({}, vals)]
    ELSE LET f == father(current)[2]
             idx == {current, f}
         IN  IF ~ InRange(idx, vals)
             THEN [values |-> vals, current |-> current, done |-> FALSE,
                   panic |-> TRUE, used |-> Use(idx, vals)]
             ELSE IF At(vals, current) >= At(vals, f)
             THEN [values |-> vals, current |-> current, done |-> TRUE,
                   panic |-> FALSE, used |-> Use(idx, vals)]
             ELSE [values |-> vec_swap(vals, current, f), current |-> f,
                   done |-> FALSE, panic |-> FALSE, used |-> Use(idx, vals)]

\* pop from `last = len - 1` up to the loop: the swap with the last element,
\* the removal of the minimum, `last -= 1`
pop_take(vals) ==
    LET last0 == Len(vals) - 1
        idx == {0, last0}
    IN  IF last0 < 0 \/ ~ InRange(idx, vals)
        THEN [values |-> vals, ret |-> None, current |-> 0, last |-> last0,
              done |-> FALSE, panic |-> TRUE, used |-> Use(idx, vals)]
        ELSE LET taken == vec_pop(vec_swap(vals, 0, last0))
             IN  [values |-> taken.values, ret |-> taken.ret, current |-> 0,
                  last |-> last0 - 1, done |-> FALSE, panic |-> last0 - 1 < 0,
                  used |-> Use(idx, vals)]

\* pop up to the loop
pop_start(vals) ==
    IF vals = <<>>
    THEN [values |-> vals, ret |-> None, current |-> 0, last |-> 0,
          done |-> TRUE, panic |-> FALSE, used |-> Use({}, vals)]
    ELSE IF Len(vals) = 1
    THEN [values |-> vec_pop(vals).values, ret |-> vec_pop(vals).ret,
          current |-> 0, last |-> 0, done |-> TRUE, panic |-> FALSE,
          used |-> Use({}, vals)]
    ELSE pop_take(vals)

\* an iteration of pop that takes the right child when the children are equal
pop_iter_tie_right(vals, current_node, last) ==
    LET ls == left_son(current_node)
        rs == right_son(current_node)
        \* read by `right_son <= last && values[right_son] < values[left_son]`
        idx1 == IF rs <= last THEN {rs, ls} ELSE {}
    IN  IF ls > last
        THEN [values |-> vals, current |-> current_node, done |-> TRUE,
              panic |-> FALSE, used |-> Use({}, vals)]
        ELSE IF ~ InRange(idx1, vals)
        THEN [values |-> vals, current |-> current_node, done |-> FALSE,
              panic |-> TRUE, used |-> Use(idx1, vals)]
        ELSE LET smallest == IF rs <= last /\ At(vals, rs) <= At(vals, ls)
                             THEN rs ELSE ls
                 idx == idx1 \cup {current_node, smallest}
             IN  IF ~ InRange(idx, vals)
                 THEN [values |-> vals, current |-> current_node, done |-> FALSE,
                       panic |-> TRUE, used |-> Use(idx, vals)]
                 ELSE IF At(vals, current_node) <= At(vals, smallest)
                 THEN [values |-> vals, current |-> current_node, done |-> TRUE,
                       panic |-> FALSE, used |-> Use(idx, vals)]
                 ELSE [values |-> vec_swap(vals, current_node, smallest),
                       current |-> smallest, done |-> FALSE, panic |-> FALSE,
                       used |-> Use(idx, vals)]

\* an iteration of pop that reads the right child without `right_son <= last`
pop_iter_unchecked(vals, current_node, last) ==
    LET ls == left_son(current_node)
        rs == right_son(current_node)
        \* read by `right_son <= last && values[right_son] < values[left_son]`
        idx1 == {rs, ls}
    IN  IF ls > last
        THEN [values |-> vals, current |-> current_node, done |-> TRUE,
              panic |-> FALSE, used |-> Use({}, vals)]
        ELSE IF ~ InRange(idx1, vals)
        THEN [values |-> vals, current |-> current_node, done |-> FALSE,
              panic |-> TRUE, used |-> Use(idx1, vals)]
        ELSE LET smallest == IF At(vals, rs) < At(vals, ls)
                             THEN rs ELSE ls
                 idx == idx1 \cup {current_node, smallest}
             IN  IF ~ InRange(idx, vals)
                 THEN [values |-> vals, current |-> current_node, done |-> FALSE,
                       panic |-> TRUE, used |-> Use(idx, vals)]
                 ELSE IF At(vals, current_node) <= At(vals, smallest)
                 THEN [values |-> vals, current |-> current_node, done |-> TRUE,
                       panic |-> FALSE, used |-> Use(idx, vals)]
                 ELSE [values |-> vec_swap(vals, current_node, smallest),
                       current |-> smallest, done |-> FALSE, panic |-> FALSE,
                       used |-> Use(idx, vals)]

\* one iteration of the loop of pop
pop_iter(vals, current_node, last) ==
    LET ls == left_son(current_node)
        rs == right_son(current_node)
        \* read by `right_son <= last && values[right_son] < values[left_son]`
        idx1 == IF rs <= last THEN {rs, ls} ELSE {}
    IN  IF ls > last
        THEN [values |-> vals, current |-> current_node, done |-> TRUE,
              panic |-> FALSE, used |-> Use({}, vals)]
        ELSE IF ~ InRange(idx1, vals)
        THEN [values |-> vals, current |-> current_node, done |-> FALSE,
              panic |-> TRUE, used |-> Use(idx1, vals)]
        ELSE LET smallest == IF rs <= last /\ At(vals, rs) < At(vals, ls)
                             THEN rs ELSE ls
                 idx == idx1 \cup {current_node, smallest}
             IN  IF ~ InRange(idx, vals)
                 THEN [values |-> vals, current |-> current_node, done |-> FALSE,
                       panic |-> TRUE, used |-> Use(idx, vals)]
                 ELSE IF At(vals, current_node) <= At(vals, smallest)
                 THEN [values |-> vals, current |-> current_node, done |-> TRUE,
                       panic |-> FALSE, used |-> Use(idx, vals)]
                 ELSE [values |-> vec_swap(vals, current_node, smallest),
                       current |-> smallest, done |-> FALSE, panic |-> FALSE,
                       used |-> Use(idx, vals)]

----------------------------------------------------------------------------
(* The reference heap of tests::fuzz: std's BinaryHeap<Reverse<i32>>, a    *)
(* priority queue whose pop removes the minimum of its multiset.           *)

EmptyBag == [v \in Val |-> 0]

BagSize(b) ==
    LET RECURSIVE Sum(_)
        Sum(S) == IF S = {} THEN 0
                  ELSE LET x == CHOOSE y \in S : TRUE IN b[x] + Sum(S \ {x})
    IN  Sum(DOMAIN b)

BagMin(b) == CHOOSE v \in DOMAIN b : b[v] > 0 /\ \A w \in DOMAIN b : b[w] > 0 => v <= w

theirs_push(b, val) == [b EXCEPT ![val] = @ + 1]

theirs_pop(b) ==
    IF BagSize(b) = 0
    THEN [bag |-> b, ret |-> None]
    ELSE [bag |-> [b EXCEPT ![BagMin(b)] = @ - 1], ret |-> Some(BagMin(b))]

----------------------------------------------------------------------------
(* The record of what went in and what came out: net[v] is the number of   *)
(* times v was pushed minus the number of times a pop returned it.         *)

EmptyNet == [v \in {} |-> 0]

NetCount(n, v) == IF v \in DOMAIN n THEN n[v] ELSE 0

NetAdd(n, v, d) ==
    LET D == DOMAIN n \cup {v}
        f == [w \in D |-> NetCount(n, w) + (IF w = v THEN d ELSE 0)]
    IN  [w \in {x \in D : f[x] # 0} |-> f[w]]

NoUse == [idx |-> {}, len |-> 0]

----------------------------------------------------------------------------
(* The state machine: one action per method call. *)

Init ==
    /\ values = new
    /\ op = "new"
    /\ arg = NoArg
    /\ ret = Unit
    /\ before = new
    /\ pushes = 0
    /\ pops = 0
    /\ theirs = EmptyBag
    /\ theirsRet = Unit
    /\ phase = "push"
    /\ pushed = <<>>
    /\ popped = <<>>
    /\ net = EmptyNet
    /\ pc = "idle"
    /\ loop_current = 0
    /\ loop_last = 0
    /\ saved = None
    /\ used = NoUse
    /\ trail = <<>>

CallPush(val) ==
    /\ Len(values) < MaxLen
    /\ pushes < MaxPushes
    /\ values' = push(values, val).values
    /\ ret' = push(values, val).ret
    /\ op' = "push"
    /\ arg' = val
    /\ before' = values
    /\ pushes' = pushes + 1
    /\ pops' = pops
    /\ theirs' = theirs_push(theirs, val)
    /\ theirsRet' = Unit
    /\ net' = NetAdd(net, val, 1)
    /\ UNCHANGED stepvars

CallPop ==
    /\ values' = pop(values).values
    /\ ret' = pop(values).ret
    /\ op' = "pop"
    /\ arg' = NoArg
    /\ before' = values
    /\ pushes' = pushes
    /\ pops' = IF pop(values).ret = None THEN pops ELSE pops + 1
    /\ theirs' = theirs_pop(theirs).bag
    /\ theirsRet' = theirs_pop(theirs).ret
    /\ net' = IF pop(values).ret = None THEN net
              ELSE NetAdd(net, pop(values).ret[2], -1)
    /\ UNCHANGED stepvars

CallTop ==
    /\ values' = top(values).values
    /\ ret' = top(values).ret
    /\ op' = "top"
    /\ arg' = NoArg
    /\ before' = values
    /\ UNCHANGED <<pushes, pops, theirs, net>>
    /\ theirsRet' = Unit
    /\ UNCHANGED stepvars

CallLen ==
    /\ values' = len(values).values
    /\ ret' = len(values).ret
    /\ op' = "len"
    /\ arg' = NoArg
    /\ before' = values
    /\ UNCHANGED <<pushes, pops, theirs, net>>
    /\ theirsRet' = Unit
    /\ UNCHANGED stepvars

CallIsEmpty ==
    /\ values' = is_empty(values).values
    /\ ret' = is_empty(values).ret
    /\ op' = "is_empty"
    /\ arg' = NoArg
    /\ before' = values
    /\ UNCHANGED <<pushes, pops, theirs, net>>
    /\ theirsRet' = Unit
    /\ UNCHANGED stepvars

DoPush == \E val \in Val : CallPush(val) /\ UNCHANGED <<phase, pushed, popped>>
DoPop == CallPop /\ UNCHANGED <<phase, pushed, popped>>
DoTop == CallTop /\ UNCHANGED <<phase, pushed, popped>>
DoLen == CallLen /\ UNCHANGED <<phase, pushed, popped>>
DoIsEmpty == CallIsEmpty /\ UNCHANGED <<phase, pushed, popped>>

Next == DoPush \/ DoPop \/ DoTop \/ DoLen \/ DoIsEmpty

Spec == Init /\ [][Next]_vars

----------------------------------------------------------------------------
(* The scenario of tests::pop_returns_and_erases_minimum_element and       *)
(* tests::top_changes_on_pop: N pushes onto an empty heap, then pops with  *)
(* no push in between, top() being read at any moment.                     *)

SortedPush ==
    /\ phase = "push"
    /\ \E val \in Val : CallPush(val) /\ pushed' = Append(pushed, val)
    /\ UNCHANGED <<phase, popped>>

SortedPop ==
    /\ CallPop
    /\ phase' = "pop"
    /\ popped' = IF pop(values).ret = None THEN popped
                 ELSE Append(popped, pop(values).ret[2])
    /\ UNCHANGED pushed

SortedTop == CallTop /\ UNCHANGED <<phase, pushed, popped>>

NextSorted == SortedPush \/ SortedPop \/ SortedTop

SpecSorted == Init /\ [][NextSorted]_vars

----------------------------------------------------------------------------
(* The fixed values of the tests: pushed in the order written, then popped, *)
(* with top() and is_empty() read at any moment.                            *)

ScenarioValues == <<1, 10, 3, -4123, 34, 100, 124>>

ScenarioPush ==
    /\ phase = "push"
    /\ Len(pushed) < Len(ScenarioValues)
    /\ LET val == ScenarioValues[Len(pushed) + 1]
       IN  /\ values' = push(values, val).values
           /\ ret' = push(values, val).ret
           /\ arg' = val
           /\ pushed' = Append(pushed, val)
    /\ op' = "push"
    /\ before' = values
    /\ pushes' = pushes + 1
    /\ theirsRet' = Unit
    /\ net' = NetAdd(net, ScenarioValues[Len(pushed) + 1], 1)
    /\ UNCHANGED <<pops, theirs, phase, popped>>
    /\ UNCHANGED stepvars

ScenarioPop == SortedPop

ScenarioTop == SortedTop

ScenarioIsEmpty == CallIsEmpty /\ UNCHANGED <<phase, pushed, popped>>

NextScenario == ScenarioPush \/ ScenarioPop \/ ScenarioTop \/ ScenarioIsEmpty

SpecScenario == Init /\ [][NextScenario]_vars

----------------------------------------------------------------------------
(* push and pop one loop iteration at a time.  A call that has started     *)
(* runs on: nothing else happens to the heap until it has returned.        *)

Running == <<"running">>

\* what pc becomes after a step
PcAfter(st, loop) == IF st.panic THEN "panic" ELSE IF st.done THEN "idle" ELSE loop

StepPush(val) ==
    /\ pc = "idle"
    /\ Len(values) < MaxLen
    /\ pushes < MaxPushes
    /\ LET st == push_start(values, val)
       IN  /\ values' = st.values
           /\ loop_current' = st.current
           /\ pc' = IF st.panic THEN "panic" ELSE "push_loop"
           /\ trail' = <<st.current>>
    /\ used' = NoUse
    /\ op' = "push"
    /\ arg' = val
    /\ ret' = Running
    /\ before' = values
    /\ pushes' = pushes + 1
    /\ net' = NetAdd(net, val, 1)
    /\ UNCHANGED <<pops, loop_last, saved, theirs, theirsRet, phase, pushed, popped>>

StepPushIter ==
    /\ pc = "push_loop"
    /\ LET st == push_iter(values, loop_current)
       IN  /\ values' = st.values
           /\ loop_current' = st.current
           /\ pc' = PcAfter(st, "push_loop")
           /\ used' = st.used
           /\ trail' = IF st.current = loop_current THEN trail
                       ELSE Append(trail, st.current)
           /\ ret' = IF st.done /\ ~ st.panic THEN Unit ELSE ret
    /\ UNCHANGED <<op, arg, before, pushes, pops, net, loop_last, saved,
                   theirs, theirsRet, phase, pushed, popped>>

StepPop ==
    /\ pc = "idle"
    /\ LET st == pop_start(values)
       IN  /\ values' = st.values
           /\ loop_current' = st.current
           /\ loop_last' = st.last
           /\ saved' = st.ret
           /\ pc' = PcAfter(st, "pop_loop")
           /\ used' = st.used
           /\ ret' = IF st.done /\ ~ st.panic THEN st.ret ELSE Running
           /\ pops' = IF st.ret = None THEN pops ELSE pops + 1
           /\ net' = IF st.ret = None THEN net ELSE NetAdd(net, st.ret[2], -1)
    /\ trail' = <<0>>
    /\ op' = "pop"
    /\ arg' = NoArg
    /\ before' = values
    /\ UNCHANGED <<pushes, theirs, theirsRet, phase, pushed, popped>>

StepPopIter ==
    /\ pc = "pop_loop"
    /\ LET st == pop_iter(values, loop_current, loop_last)
       IN  /\ values' = st.values
           /\ loop_current' = st.current
           /\ pc' = PcAfter(st, "pop_loop")
           /\ used' = st.used
           /\ trail' = IF st.current = loop_current THEN trail
                       ELSE Append(trail, st.current)
           /\ ret' = IF st.done /\ ~ st.panic THEN saved ELSE ret
    /\ UNCHANGED <<op, arg, before, pushes, pops, net, loop_last, saved,
                   theirs, theirsRet, phase, pushed, popped>>

DoStepPush == \E val \in Val : StepPush(val)

NextSteps == DoStepPush \/ StepPushIter \/ StepPop \/ StepPopIter

SpecSteps ==
    /\ Init
    /\ [][NextSteps]_vars
    /\ WF_vars(StepPushIter)
    /\ WF_vars(StepPopIter)

----------------------------------------------------------------------------
(* The index functions on their own: an index is drawn, and left_son,      *)
(* right_son and father are applied to it; op, arg and ret hold the        *)
(* function applied last, its argument and what it returned.               *)

InitIndex ==
    /\ arg \in 0 .. MaxIndex
    /\ op = "new"
    /\ ret = Unit
    /\ values = new
    /\ before = new
    /\ pushes = 0
    /\ pops = 0
    /\ theirs = EmptyBag
    /\ theirsRet = Unit
    /\ phase = "push"
    /\ pushed = <<>>
    /\ popped = <<>>
    /\ net = EmptyNet
    /\ pc = "idle"
    /\ loop_current = 0
    /\ loop_last = 0
    /\ saved = None
    /\ used = NoUse
    /\ trail = <<>>

IndexFrame ==
    UNCHANGED <<arg, values, before, pushes, pops, theirs, theirsRet, phase,
                pushed, popped, net, stepvars>>

ApplyLeftSon == op' = "left_son" /\ ret' = left_son(arg) /\ IndexFrame

ApplyRightSon == op' = "right_son" /\ ret' = right_son(arg) /\ IndexFrame

ApplyFather == op' = "father" /\ ret' = father(arg) /\ IndexFrame

NextIndex == ApplyLeftSon \/ ApplyRightSon \/ ApplyFather

SpecIndex == InitIndex /\ [][NextIndex]_vars

\* ordered.sort() of the tests: insertion sort into non-decreasing order
RECURSIVE InsertSorted(_, _)
InsertSorted(s, x) ==
    IF s = <<>> THEN <<x>>
    ELSE IF x <= Head(s) THEN <<x>> \o s
    ELSE <<Head(s)>> \o InsertSorted(Tail(s), x)

RECURSIVE SortSeq(_)
SortSeq(s) == IF s = <<>> THEN <<>> ELSE InsertSorted(SortSeq(Tail(s)), Head(s))

----------------------------------------------------------------------------
(* Vocabulary of the properties. *)

\* the heap-order property over a whole vector
HeapOrdered(vals) ==
    \A i \in 1 .. Len(vals) - 1 : At(vals, ((i + 1) \div 2) - 1) <= At(vals, i)

\* number of occurrences of v in a sequence
Count(s, v) == Cardinality({k \in DOMAIN s : s[k] = v})

\* the elements of a sequence
Elems(s) == {s[k] : k \in DOMAIN s}

\* the smallest element of a non-empty sequence
MinOf(s) == CHOOSE v \in Elems(s) : \A w \in Elems(s) : v <= w

\* the smallest element as an Option
MinOpt(s) == IF s = <<>> THEN None ELSE Some(MinOf(s))

\* s and t hold the same multiset
SameBag(s, t) == \A v \in Elems(s) \cup Elems(t) : Count(s, v) = Count(t, v)

\* s is t with exactly one occurrence of x removed
OneRemoved(s, t, x) ==
    /\ Len(s) = Len(t) - 1
    /\ \A v \in Elems(s) \cup Elems(t) :
          Count(s, v) = IF v = x THEN Count(t, v) - 1 ELSE Count(t, v)

NonDecreasing(s) == \A k \in 1 .. Len(s) - 1 : s[k] <= s[k + 1]

\* the indices on the way from index i to the root, under repeated father()
RECURSIVE PathToRoot(_)
PathToRoot(i) ==
    IF father(i) = None THEN {i} ELSE {i} \cup PathToRoot(father(i)[2])

\* the same indices in order, from i up to the root
RECURSIVE PathSeq(_)
PathSeq(i) ==
    IF father(i) = None THEN <<i>> ELSE <<i>> \o PathSeq(father(i)[2])

\* how many of the indices idx, taken in order, hold a value strictly greater
\* than v before the first one that does not
RECURSIVE GreaterRun(_, _, _)
GreaterRun(idx, vals, v) ==
    IF idx = <<>> THEN 0
    ELSE IF At(vals, Head(idx)) > v THEN 1 + GreaterRun(Tail(idx), vals, v)
    ELSE 0

\* for the push that ran last: the path of the new leaf, and the number of
\* ancestors the pushed value has to pass
PushPath == PathSeq(Len(before))
PushClimb == GreaterRun(Tail(PushPath), before, arg)

----------------------------------------------------------------------------
(* Properties. *)

\* a call run one iteration at a time leaves what the call run at once leaves
StepsAgree ==
    /\ pc # "panic"
    /\ pc = "idle" /\ op = "push" =>
          values = push(before, arg).values /\ ret = push(before, arg).ret
    /\ pc = "idle" /\ op = "pop" =>
          values = pop(before).values /\ ret = pop(before).ret

\* C1: after new() and after every push and pop, every index i >= 1 of the
\* backing sequence has values[floor((i+1)/2) - 1] <= values[i].
HeapOrderInvariant == HeapOrdered(values)

\* a pop of a heap of five or more whose sift-down moved the former last
\* element away from the root
HeapOrderWitness ==
    /\ op = "pop"
    /\ Len(before) >= 5
    /\ Cardinality(Elems(values)) >= 3
    /\ At(values, 0) # At(before, Len(before) - 1)

\* C2: top() returns the smallest stored element (None on the empty heap);
\* pop() returns that same value and removes exactly one occurrence of it.
MinimumCorrect ==
    /\ top(values).ret = MinOpt(values)
    /\ op = "top" => ret = MinOpt(before)
    /\ op = "pop" => ret = MinOpt(before) /\ ret = top(before).ret
    /\ op = "pop" /\ before # <<>> =>
          /\ Len(ret) = 2
          /\ OneRemoved(values, before, ret[2])

\* a pop of a heap that held its minimum more than once
MinimumWitness ==
    /\ op = "pop"
    /\ Len(before) >= 4
    /\ Len(ret) = 2
    /\ Count(before, ret[2]) >= 2
    /\ Cardinality(Elems(before)) >= 2

\* C3: driven by the same pushes and pops, every pop returns what the
\* reference min-priority-queue returns, and both hold the same number of
\* elements.
DifferentialEquivalence ==
    /\ op = "pop" => ret = theirsRet
    /\ len(values).ret = BagSize(theirs)

\* a third or later pop, on heaps that still hold elements afterwards
DifferentialWitness ==
    /\ op = "pop"
    /\ ret # None
    /\ ret = theirsRet
    /\ pops >= 3
    /\ pushes > pops + 1

\* C4: N pushes onto an empty heap followed by N pops return the pushed
\* values in non-decreasing order: the sorted input.
SortedExtraction ==
    /\ NonDecreasing(popped)
    /\ phase = "pop" /\ Len(popped) = Len(pushed) =>
          /\ SameBag(popped, pushed)
          /\ popped = SortSeq(pushed)

\* five or more values, not pushed in sorted order, all popped
SortedWitness ==
    /\ phase = "pop"
    /\ Len(pushed) >= 5
    /\ Len(popped) = Len(pushed)
    /\ Cardinality(Elems(pushed)) >= 3
    /\ pushed # SortSeq(pushed)

\* C5: len() is the number of pushes minus the number of pops that returned
\* Some; a push adds one, a pop of a non-empty heap takes one, a pop of the
\* empty heap leaves it at 0.
SizeConsistency ==
    /\ len(values).ret = pushes - pops
    /\ op = "len" => ret = pushes - pops
    /\ op = "push" => Len(values) = Len(before) + 1
    /\ op = "pop" /\ before # <<>> => Len(values) = Len(before) - 1
    /\ op = "pop" /\ before = <<>> => Len(values) = 0

\* len() called after pushes and pops, on a heap that holds elements
SizeWitness ==
    /\ op = "len"
    /\ pushes >= 4
    /\ pops >= 2
    /\ ret = 2

\* C6: on the empty heap pop() and top() return None and leave the heap
\* empty; a push that follows behaves as on a fresh heap.
EmptyAbsent ==
    /\ values = <<>> =>
          /\ pop(values) = [values |-> <<>>, ret |-> None]
          /\ top(values) = [values |-> <<>>, ret |-> None]
    /\ op \in {"pop", "top"} /\ before = <<>> => ret = None /\ values = <<>>
    /\ op = "push" /\ before = <<>> => values = push(new, arg).values

\* a pop of a heap that earlier pops had emptied
EmptyAbsentWitness ==
    /\ op = "pop"
    /\ before = <<>>
    /\ pops >= 2
    /\ ret = None

\* C7: is_empty() is true exactly when len() is 0; it is false while more
\* values were pushed than popped.
Emptiness ==
    /\ is_empty(values).ret <=> (len(values).ret = 0)
    /\ op = "is_empty" => (ret <=> (len(before).ret = 0))
    /\ pushes > pops => ~ is_empty(values).ret

\* is_empty() answering FALSE after pushes and a pop
EmptinessWitness ==
    /\ op = "is_empty"
    /\ ret = FALSE
    /\ pops >= 1

\* C8: top(), len() and is_empty() leave the backing sequence as it was.
ReadOnly ==
    /\ op \in {"top", "len", "is_empty"} => values = before
    /\ top(values).values = values
    /\ len(values).values = values
    /\ is_empty(values).values = values

\* top() called on a heap of three or more
ReadOnlyWitness ==
    /\ op = "top"
    /\ Len(before) >= 3
    /\ ret = Some(At(before, 0))

\* C9: right after new(), is_empty() is true, len() is 0, and top() and pop()
\* return None.
InitialState ==
    /\ op = "new" =>
          /\ is_empty(values).ret = TRUE
          /\ len(values).ret = 0
          /\ top(values).ret = None
          /\ pop(values).ret = None
    /\ pushes = 0 /\ op = "is_empty" => ret = TRUE
    /\ pushes = 0 /\ op = "len" => ret = 0
    /\ pushes = 0 /\ op \in {"top", "pop"} => ret = None

\* top() called on the heap new() returned, before any push
InitialWitness ==
    /\ op = "top"
    /\ pushes = 0
    /\ ret = None

\* C10: after N pushes onto an empty heap and k < N pops, top() returns the
\* element at position k (0-based) of the sorted pushed sequence.
TopTracksNext ==
    /\ Len(popped) < Len(pushed) =>
          top(values).ret = Some(SortSeq(pushed)[Len(popped) + 1])
    /\ op = "top" /\ Len(popped) < Len(pushed) =>
          ret = Some(SortSeq(pushed)[Len(popped) + 1])

\* top() called after two or more pops, returning a value above the minimum
TopTracksWitness ==
    /\ op = "top"
    /\ Len(pushed) >= 5
    /\ Len(popped) >= 2
    /\ Len(popped) < Len(pushed)
    /\ ret # Some(MinOf(pushed))

\* C11: pushing 1, 10, 3, -4123, 34, 100, 124 in that order makes top()
\* return -4123; seven pops return -4123, 1, 3, 10, 34, 100, 124 in that
\* order, then is_empty() is true and an eighth pop() returns None.
ScenarioResult ==
    pushed = ScenarioValues =>
        /\ popped = SubSeq(<<-4123, 1, 3, 10, 34, 100, 124>>, 1, Len(popped))
        /\ popped = <<>> => top(values).ret = Some(-4123)
        /\ popped = <<>> /\ op = "top" => ret = Some(-4123)
        /\ Len(popped) = 7 =>
              /\ is_empty(values).ret = TRUE
              /\ op = "is_empty" => ret = TRUE
              /\ pop(values).ret = None
              /\ op = "pop" /\ before = <<>> => ret = None

\* the eighth pop, after the seven values were pushed and popped
ScenarioWitness ==
    /\ pushed = ScenarioValues
    /\ Len(popped) = 7
    /\ op = "pop"
    /\ before = <<>>
    /\ ret = None

\* C12: push(v) on a heap of length n leaves every element at an index that
\* is neither n nor an ancestor of n where it was, with the value it had.
PushFrame ==
    op = "push" =>
        /\ Len(values) = Len(before) + 1
        /\ \A i \in 0 .. Len(before) - 1 :
              i \notin PathToRoot(Len(before)) => At(values, i) = At(before, i)

\* a push onto a heap of five or more that sifted the value up to the root
PushFrameWitness ==
    /\ op = "push"
    /\ Len(before) >= 5
    /\ At(before, 0) > arg
    /\ At(values, 0) = arg

\* C13: push(v) appends v at index n and moves it up past the ancestors that
\* are strictly greater than v, stopping below the first ancestor <= v; each
\* ancestor passed moves one step down the path, everything else stays.
SiftUpStrict ==
    /\ op = "push" /\ pc = "push_loop" /\ Len(trail) = 1 =>
          values = Append(before, arg) /\ loop_current = Len(before)
    /\ op = "push" /\ pc = "idle" =>
        /\ trail = SubSeq(PushPath, 1, PushClimb + 1)
        /\ loop_current = PushPath[PushClimb + 1]
        /\ At(values, PushPath[PushClimb + 1]) = arg
        /\ \A j \in 1 .. PushClimb : At(values, PushPath[j]) = At(before, PushPath[j + 1])
        /\ \A i \in 0 .. Len(before) :
              i \notin {PushPath[j] : j \in 1 .. PushClimb + 1} =>
                  At(values, i) = At(Append(before, arg), i)

\* a push that passed an ancestor and stopped below an ancestor equal to it
SiftUpWitness ==
    /\ op = "push"
    /\ pc = "idle"
    /\ Len(trail) >= 2
    /\ PushClimb >= 1
    /\ PushClimb + 2 <= Len(PushPath)
    /\ At(before, PushPath[PushClimb + 2]) = arg

\* C14: pop() on a heap of two or more puts the former last element at index
\* 0; each iteration then picks the left child, or the right child when it is
\* within the remaining sequence and strictly smaller than the left one, swaps
\* only when the current value is strictly greater than the child picked, and
\* stops otherwise or when the left child index is past the last index.
SiftDownSelect ==
    [][pc = "pop_loop" =>
        /\ trail = <<0>> =>
              /\ Len(before) >= 2
              /\ loop_current = 0
              /\ saved = Some(At(before, 0))
              /\ values = [k \in 1 .. Len(before) - 1 |->
                              IF k = 1 THEN before[Len(before)] ELSE before[k]]
        /\ LET c == loop_current
               n == Len(values)
               ls == 2 * c + 1
               rs == 2 * c + 2
               chosen == IF rs < n /\ At(values, rs) < At(values, ls) THEN rs ELSE ls
           IN  IF ls > n - 1
               THEN pc' = "idle" /\ values' = values
               ELSE IF At(values, c) > At(values, chosen)
               THEN /\ pc' = "pop_loop"
                    /\ loop_current' = chosen
                    /\ values' = vec_swap(values, c, chosen)
               ELSE pc' = "idle" /\ values' = values]_vars

\* a pop whose first iteration found both children equal and smaller than the
\* value at the root, and went left
SiftDownWitness ==
    /\ op = "pop"
    /\ pc = "idle"
    /\ Len(trail) >= 2
    /\ trail[2] = 1
    /\ Len(values) >= 3
    /\ At(values, 0) = At(values, 2)

\* C15: every push and every pop returns; the index of the sift-up loop goes
\* strictly down from one iteration to the next, the index of the sift-down
\* loop strictly up.
Termination ==
    /\ [][pc = "push_loop" /\ pc' = "push_loop" => loop_current' < loop_current]_vars
    /\ [][pc = "pop_loop" /\ pc' = "pop_loop" => loop_current' > loop_current]_vars
    /\ (pc # "idle") ~> (pc = "idle" /\ ret # Running)

\* a pop that has returned after two swaps: its loop ran three iterations
TerminationWitness ==
    /\ op = "pop"
    /\ pc = "idle"
    /\ ret # Running
    /\ Len(trail) = 3
    /\ trail[1] < trail[2]
    /\ trail[2] < trail[3]

\* C16: the values in the backing sequence are, as a multiset, the values
\* pushed minus the values the pops returned; a push adds its value and a pop
\* takes the value it returns, and nothing else is added, dropped or altered.
ElementConservation ==
    /\ \A v \in Elems(values) \cup DOMAIN net : Count(values, v) = NetCount(net, v)
    /\ op = "push" => SameBag(values, Append(before, arg))
    /\ op = "pop" /\ Len(ret) = 2 => SameBag(Append(values, ret[2]), before)
    /\ op = "pop" /\ ret = None => values = before

\* a pop after interleaved pushes and pops, on a heap that holds a value twice
ConservationWitness ==
    /\ op = "pop"
    /\ pops >= 2
    /\ pushes >= 5
    /\ Len(values) >= 3
    /\ \E v \in DOMAIN net : net[v] >= 2

\* C17: every index push and pop read or swap at is below the length the
\* vector has at that moment, and values.len() - 1 and last -= 1 never go
\* below 0: no call panics.
IndexSafety ==
    /\ pc # "panic"
    /\ \A i \in used.idx : 0 <= i /\ i < used.len
    /\ loop_current >= 0
    /\ loop_last >= 0
    /\ pc = "push_loop" => loop_current < Len(values)
    /\ pc = "pop_loop" => loop_current <= loop_last /\ loop_last = Len(values) - 1

\* an iteration of pop that read both children, the right one being the last
\* element of the vector
IndexSafetyWitness ==
    /\ op = "pop"
    /\ Cardinality(used.idx) = 3
    /\ used.len - 1 \in used.idx
    /\ used.len = Len(values)
    /\ used.len >= 5

\* C18: left_son(i) = 2i+1 and right_son(i) = 2i+2; father(0) is None and
\* father(i) = Some(floor((i+1)/2) - 1) for i >= 1; the father of both sons of
\* i is i, and every i >= 1 is the left or the right son of its father.
IndexArithmetic ==
    /\ op = "left_son" => ret = 2 * arg + 1 /\ father(ret) = Some(arg)
    /\ op = "right_son" => ret = 2 * arg + 2 /\ father(ret) = Some(arg)
    /\ op = "father" /\ arg = 0 => ret = None
    /\ op = "father" /\ arg >= 1 =>
          /\ ret = Some(((arg + 1) \div 2) - 1)
          /\ arg \in {left_son(ret[2]), right_son(ret[2])}
          /\ left_son(ret[2]) # right_son(ret[2])

\* father applied to an even index of depth three or more: a right son
IndexWitness ==
    /\ op = "father"
    /\ arg >= 8
    /\ arg % 2 = 0
    /\ Len(ret) = 2
    /\ right_son(ret[2]) = arg

=============================================================================
